---- MODULE Spec2Model ----
(***************************************************************************)
(* Model of the gravity simulator in src/script.js: the classes Vector2,   *)
(* Body and Simulation, the two operations that change the engine's state, *)
(* Simulation.placeNewBody and Simulation.calculateOneTick, and the page's *)
(* driver: main, the interval timer of start() and pause(), and the        *)
(* listeners.  The program is single-threaded JavaScript and none of its   *)
(* functions suspends, so a listener or a timer callback runs to its end   *)
(* before the next one begins: each is one action.                         *)
(*                                                                         *)
(* Numbers.  The program computes in float64.  Here a number is an integer *)
(* of the unit grid: + and - are exact, a product of two grid numbers is   *)
(* exact, a quotient is rounded to the nearest integer (ties to even, as   *)
(* IEEE 754 rounds), a square root is rounded to the nearest integer, and  *)
(* a comparison of distances is exact.  The gravitational constant is not  *)
(* a grid number, so a product with it is rounded like a quotient; the     *)
(* program's G * this.mass * b.mass rounds after each of its two products  *)
(* and so depends on the order of the two masses.                          *)
(* A division by zero yields an undefined value (NaN or Inf in the         *)
(* program); at every place of this program where that happens both        *)
(* components of the vector become undefined together, so a vector carries *)
(* one flag, nan, and an undefined vector is the single value NaNVec.      *)
(*                                                                         *)
(* Units.  Lengths are in units of 60.84 m and masses in units of          *)
(* 1.52e16 kg; in these units the gravitational constant is 9/2 and        *)
(* SUN_RADIUS^2 / SUN_MASS is 1, so that radius() is the square root of    *)
(* the mass.  The cap of radius(), 0.05 * AU, is scaled down to RadiusCap  *)
(* so that the bounded masses of the model reach it.                       *)
(***************************************************************************)
EXTENDS Integers, Sequences, FiniteSets, TLC

VARIABLES
    bodies,   \* Simulation.bodies, a sequence of Body records
    time,     \* Simulation.time
    calls,    \* history: the number of calls of calculateOneTick so far
    created,  \* history: the number of bodies the constructor's loop and
              \* placeNewBody have created so far
    last      \* history: the last operation, the collection and the tick
              \* counter before it, and
              \* for a tick the collection at the end of the collision pass
              \* (line 243, before the filter) and the absorptions in order
VARIABLES
    paused,   \* main's local variable paused
    interval, \* Simulation.interval: Null or the id of a timer
    timers,   \* the browser's active interval timers, a set of ids
    started,  \* history: the number of calls of setInterval so far
    drawn     \* the collection drawAllBodies painted last

vars == <<bodies, time, calls, created, last,
          paused, interval, timers, started, drawn>>

\* ---------------------------------------------------------------- bounds
MaxBodies == 3          \* bodies created in a run of Spec
MaxBodiesPositive == 4  \* bodies created in a run of SpecPositive
InitBodies == 2         \* numberOfBodies given to the constructor
MaxTicks == 2           \* calls of calculateOneTick
MaxStarts == 3          \* calls of start()

\* ------------------------------------------------------------- constants
GNum == 9               \* G is GNum / GDen
GDen == 2
RadiusCap == 10
BODY_COLORS == {"yellow", "blue", "red"}
Null == 0               \* this.interval = null; timer ids are positive

\* ------------------------------------------------------------ arithmetic
Abs(a) == IF a < 0 THEN -a ELSE a
Sign(a) == IF a < 0 THEN -1 ELSE IF a > 0 THEN 1 ELSE 0
Min(a, b) == IF a < b THEN a ELSE b

\* a / b rounded down
FloorDiv(a, b) == a \div b

\* a / b for b > 0, rounded to the nearest integer, ties to even
RoundDiv(a, b) ==
    LET q == Abs(a) \div b
        r == Abs(a) % b
        up == (2 * r > b) \/ (2 * r = b /\ q % 2 = 1)
    IN  Sign(a) * (IF up THEN q + 1 ELSE q)

RECURSIVE SqrtSearch(_, _, _)
SqrtSearch(n, lo, hi) ==
    IF lo >= hi THEN lo
    ELSE LET mid == (lo + hi + 1) \div 2
         IN  IF mid * mid <= n THEN SqrtSearch(n, mid, hi)
             ELSE SqrtSearch(n, lo, mid - 1)

\* Math.sqrt(n), rounded to the nearest integer
Sqrt(n) ==
    LET f == SqrtSearch(n, 0, Min(n, 46340))
    IN  IF n - f * f > f THEN f + 1 ELSE f

\* --------------------------------------------------------------- Vector2
Vec(x, y) == [x |-> x, y |-> y, nan |-> FALSE]
NaNVec == [x |-> 0, y |-> 0, nan |-> TRUE]

Plus(v, w) == IF v.nan \/ w.nan THEN NaNVec ELSE Vec(v.x + w.x, v.y + w.y)
Minus(v, w) == IF v.nan \/ w.nan THEN NaNVec ELSE Vec(v.x - w.x, v.y - w.y)
Times(v, d) == IF v.nan THEN NaNVec ELSE Vec(v.x * d, v.y * d)

\* v.times(1.0 / d) for d >= 0: the reciprocal of zero is Inf, and the
\* vectors the program scales by it have zero components (0 * Inf is NaN)
TimesInverse(v, d) ==
    IF v.nan \/ d = 0 THEN NaNVec
    ELSE Vec(RoundDiv(v.x, d), RoundDiv(v.y, d))

\* x ** 2 + y ** 2, the square of length()
LengthSq(v) == v.x * v.x + v.y * v.y
Length(v) == Sqrt(LengthSq(v))

\* ------------------------------------------------------------------ Body
NewBody(mass, massCenter, movement, color) ==
    [mass |-> mass, massCenter |-> massCenter, movement |-> movement,
     force |-> Vec(0, 0), markedForRemoval |-> FALSE, color |-> color]

\* the square of radius(): min(SUN_RADIUS * sqrt(mass / SUN_MASS), cap)
RadiusSq(b) == Min(b.mass, RadiusCap * RadiusCap)

\* a test that also takes two bodies that only touch for colliding
CollidesOrTouches(a, b) ==
    LET d == Minus(b.massCenter, a.massCenter)
        t == LengthSq(d) - RadiusSq(a) - RadiusSq(b)
    IN  /\ ~d.nan
        /\ \/ t <= 0
           \/ t * t <= 4 * RadiusSq(a) * RadiusSq(b)

\* distanceTo(b) < radius() + b.radius(), compared exactly:
\* d < ra + rb  iff  d^2 - ra^2 - rb^2 < 2 ra rb; a NaN distance is not less
CollidesWith(a, b) ==
    LET d == Minus(b.massCenter, a.massCenter)
        t == LengthSq(d) - RadiusSq(a) - RadiusSq(b)
    IN  /\ ~d.nan
        /\ \/ t < 0
           \/ t * t < 4 * RadiusSq(a) * RadiusSq(b)

\* G * this.mass * b.mass (line 76), evaluated from the left: G * this.mass
\* is rounded, its product with b.mass is exact
Attraction(a, b) == RoundDiv(GNum * a.mass, GDen) * b.mass

\* direction / distance * (G * m1 * m2 / distance ** 2); normalize() of the
\* zero vector is 0 / 0
GravitationalForce(a, b) ==
    LET direction == Minus(b.massCenter, a.massCenter)
        distance == Length(direction)
        force == Attraction(a, b)
    IN  IF direction.nan \/ distance = 0 THEN NaNVec
        ELSE Vec(RoundDiv(direction.x * force, distance * distance * distance),
                 RoundDiv(direction.y * force, distance * distance * distance))

Move(b) ==
    LET v1 == TimesInverse(b.force, b.mass)
        v2 == Plus(b.massCenter, v1)
        newPosition == Plus(b.movement, v2)
        newMovement == Minus(newPosition, b.massCenter)
    IN  [b EXCEPT !.massCenter = newPosition, !.movement = newMovement]

\* a merge that keeps the mass of the absorbing body only
MergeKeepsOwnMass(a, b, first) ==
    NewBody(a.mass,
            TimesInverse(Plus(Times(a.massCenter, a.mass),
                              Times(b.massCenter, b.mass)), a.mass + b.mass),
            TimesInverse(Plus(Times(a.movement, a.mass),
                              Times(b.movement, b.mass)), a.mass + b.mass),
            IF first THEN a.color ELSE b.color)

\* first: the outcome of Math.random() < 0.5
Merge(a, b, first) ==
    LET newMass == a.mass + b.mass
        newMassCenter ==
            TimesInverse(Plus(Times(a.massCenter, a.mass),
                              Times(b.massCenter, b.mass)), newMass)
        newCurrentMovement ==
            TimesInverse(Plus(Times(a.movement, a.mass),
                              Times(b.movement, b.mass)), newMass)
        newColor == IF first THEN a.color ELSE b.color
    IN  NewBody(newMass, newMassCenter, newCurrentMovement, newColor)


\* ------------------------------------------------------------ Simulation
\* the guard without its test of current.markedForRemoval
SkipIgnoresCurrent(bs, i, j) ==
    i = j \/ bs[j].markedForRemoval

\* the guard of the inner loop of the collision pass (lines 226-232)
Skip(bs, i, j) ==
    i = j \/ bs[i].markedForRemoval \/ bs[j].markedForRemoval

RECURSIVE MergedSoFar(_, _)
MergedSoFar(current, collidingBodies) ==
    IF collidingBodies = <<>> THEN current
    ELSE MergedSoFar(Merge(current, Head(collidingBodies), TRUE),
                     Tail(collidingBodies))

\* a scan that merges each partner into current as soon as it is found
CurrentMerged(bs, i, collidingBodies) == MergedSoFar(bs[i], collidingBodies)

\* let current = this.bodies[i] (line 222): the scan assigns neither current
\* nor slot i, whatever it has collected
Current(bs, i, collidingBodies) == bs[i]

\* the inner loop (lines 224-238) of outer index i from partner j on
RECURSIVE ScanPartners(_, _, _, _, _)
ScanPartners(bs, i, j, collidingBodies, log) ==
    IF j > Len(bs)
    THEN [bs |-> bs, collidingBodies |-> collidingBodies, log |-> log]
    ELSE IF /\ ~Skip(bs, i, j)
            /\ CollidesWith(Current(bs, i, collidingBodies), bs[j])
         THEN LET body2 == [bs[j] EXCEPT !.markedForRemoval = TRUE]
              IN  ScanPartners([bs EXCEPT ![j] = body2], i, j + 1,
                               Append(collidingBodies, body2),
                               Append(log, <<i, j>>))
         ELSE ScanPartners(bs, i, j + 1, collidingBodies, log)

\* the outcome of the c-th Math.random() < 0.5 of a tick (line 110); coins
\* holds the outcomes a tick can draw, one for each merge
Coin(coins, c) == IF c \in DOMAIN coins THEN coins[c] ELSE TRUE

\* collidingBodies.forEach((b) => (current = current.merge(b))) (line 240)
RECURSIVE MergeAll(_, _, _, _)
MergeAll(current, collidingBodies, coins, c) ==
    IF collidingBodies = <<>> THEN current
    ELSE MergeAll(Merge(current, Head(collidingBodies), Coin(coins, c + 1)),
                  Tail(collidingBodies), coins, c + 1)

\* the merged body pushed at the end, its absorber marked instead
StoreAtEnd(bs, i, current) ==
    Append([bs EXCEPT ![i].markedForRemoval = TRUE], current)

\* this.bodies[i] = current (line 241)
Store(bs, i, current) == [bs EXCEPT ![i] = current]

\* a scan that looks only at the slots behind the outer index
FirstPartnerAfter(i) == i + 1

\* let j = 0 (line 224): the scan of every outer index starts at the first slot
FirstPartner(i) == 1

\* the outer loop (lines 221-243) from index i on; c merges were made so far
RECURSIVE CollisionPass(_, _, _, _, _)
CollisionPass(bs, i, coins, c, log) ==
    IF i > Len(bs) THEN [bs |-> bs, log |-> log]
    ELSE LET scan == ScanPartners(bs, i, FirstPartner(i), <<>>, log)
             n == Len(scan.collidingBodies)
         IN  IF n > 0
             THEN CollisionPass(
                      Store(scan.bs, i,
                            MergeAll(bs[i], scan.collidingBodies, coins, c)),
                      i + 1, coins, c + n, scan.log)
             ELSE CollisionPass(scan.bs, i + 1, coins, c, scan.log)

\* a pass that drops nothing
FilterKeepsAll(bs) == bs

\* this.bodies.filter((b) => !b.markedForRemoval) (line 244)
Filter(bs) == SelectSeq(bs, LAMBDA b : ~b.markedForRemoval)

\* a force pass that adds to the force of the tick before
KeepForce(b) == b

\* body1.force = new Vector2() (line 249)
ResetForce(b) == [b EXCEPT !.force = Vec(0, 0)]

\* the inner loop of the force pass (lines 250-257)
RECURSIVE AddForces(_, _, _)
AddForces(bs, i, j) ==
    IF j > Len(bs) THEN bs
    ELSE IF i = j THEN AddForces(bs, i, j + 1)
    ELSE AddForces(
             [bs EXCEPT ![i].force = Plus(@, GravitationalForce(bs[i], bs[j]))],
             i, j + 1)

\* the force pass (lines 247-258) from index i on
RECURSIVE ForcePass(_, _)
ForcePass(bs, i) ==
    IF i > Len(bs) THEN bs
    ELSE ForcePass(AddForces([bs EXCEPT ![i] = ResetForce(bs[i])], i, 1), i + 1)

\* this.bodies.forEach((b) => b.move()) (line 260)
MoveAll(bs) == [k \in 1..Len(bs) |-> Move(bs[k])]

\* a tick that leaves the counter alone
SameTime(t) == t

\* this.time++ (line 261)
NextTime(t) == t + 1

\* calculateOneTick on the collection bs with the coin outcomes coins
Tick(bs, coins) ==
    LET pass == CollisionPass(bs, 1, coins, 0, <<>>)
    IN  [bodies |-> MoveAll(ForcePass(Filter(pass.bs), 1)),
         scanned |-> pass.bs,
         absorbed |-> pass.log]

\* a tick merges at most Len(bs) - 1 times
Coins(bs) == [1..(Len(bs) - 1) -> BOOLEAN]

\* a tick that throws on an empty collection: it has no outcome
TicksOfNonEmpty(bs) ==
    IF bs = <<>> THEN {} ELSE {Tick(bs, coins) : coins \in Coins(bs)}

\* the outcomes of calculateOneTick on the collection bs
Ticks(bs) == {Tick(bs, coins) : coins \in Coins(bs)}

\* ----------------------------------------------------------- the inputs
\* Values of getRandomPosition and of the click handler's (x, y): points of
\* [0, SIMULATION_WIDTH) x [0, SIMULATION_HEIGHT)
PointP == Vec(7, 4)
PointA == Vec(7, 12)
PointB == Vec(0, 0)
PointC == Vec(14, 0)
Positions == {PointA, PointB, PointC}
PositionsPositive == {PointP, PointA, PointB, PointC}

\* Outcomes of the Math.random() calls made while one body is created:
\* getRandomMass, getRandomMovement and the colour of Body's constructor
Zero == [mass |-> 0, movement |-> Vec(0, 0), color |-> "yellow"]
Light == [mass |-> 1, movement |-> Vec(1, 0), color |-> "blue"]
Heavy == [mass |-> 49, movement |-> Vec(0, 0), color |-> "red"]

\* the bodies a constructor loop or an insertion may create
Spawn(massCenter, draw) ==
    NewBody(draw.mass, massCenter, draw.movement, draw.color)
Spawns ==
    {Spawn(p, d) : p \in Positions, d \in {Light, Heavy}}
        \cup {Spawn(PointA, Zero)}
SpawnsPositive ==
    {Spawn(p, d) : p \in PositionsPositive, d \in {Light, Heavy}}
SpawnsDriver == {Spawn(PointB, Heavy), Spawn(PointC, Light)}

\* new Vector2(AU, AU), the centre of the simulated square
PointCentre == Vec(7, 7)

\* the body main pushes (lines 288-290): far heavier than any random mass,
\* at the centre, at rest, with a random colour
Central(color) == NewBody(400, PointCentre, Vec(0, 0), color)

\* --------------------------------------------------------------- actions
NoOp(op, before) ==
    [op |-> op, before |-> before, time |-> time,
     scanned |-> <<>>, absorbed |-> <<>>]

\* the new body put in front of the collection
Unshift(bs, b) == <<b>> \o bs

\* this.bodies.push(b) (line 211)
Push(bs, b) == Append(bs, b)

\* new Simulation(canvas, numberOfBodies) (lines 145-158)
InitFrom(S) ==
    /\ \E numberOfBodies \in 0..InitBodies :
           bodies \in [1..numberOfBodies -> S]
    /\ time = 0
    /\ calls = 0
    /\ created = Len(bodies)
    /\ last = NoOp("new", <<>>)
    /\ paused = TRUE
    /\ interval = Null
    /\ timers = {}
    /\ started = 0
    /\ drawn = <<>>

\* the click handler's placeNewBody(x, y) (lines 207-212)
PlaceFrom(S, max) ==
    /\ created < max
    /\ \E b \in S : bodies' = Push(bodies, b)
    /\ created' = created + 1
    /\ last' = NoOp("placeNewBody", bodies)
    /\ UNCHANGED <<time, calls, paused, interval, timers, started, drawn>>

PlaceNewBody == PlaceFrom(Spawns, MaxBodies)
PlaceNewBodyPositive == PlaceFrom(SpawnsPositive, MaxBodiesPositive)

\* calculateOneTick() (lines 219-262) on the engine's variables
Step ==
    /\ calls < MaxTicks
    /\ \E r \in Ticks(bodies) :
           /\ bodies' = r.bodies
           /\ last' = [op |-> "calculateOneTick", before |-> bodies,
                       time |-> time,
                       scanned |-> r.scanned, absorbed |-> r.absorbed]
    /\ time' = NextTime(time)
    /\ calls' = calls + 1
    /\ UNCHANGED created

\* a call of calculateOneTick() by itself
CalculateOneTick ==
    /\ Step
    /\ UNCHANGED <<paused, interval, timers, started, drawn>>

Init == InitFrom(Spawns)
Next == PlaceNewBody \/ CalculateOneTick
Spec == Init /\ [][Next]_vars

\* the same program when every random mass is positive
InitPositive == InitFrom(SpawnsPositive)
NextPositive == PlaceNewBodyPositive \/ CalculateOneTick
SpecPositive == InitPositive /\ [][NextPositive]_vars

\* ---------------------------------------------------------------- driver
\* clearInterval(id)
ClearInterval(ts, id) == ts \ {id}

\* a start() that sets a new timer and leaves the old one
StartLeavesOld(ts, iv, id) == ts \cup {id}

\* the timers active after start() (lines 191-199); id is the new timer
StartTimers(ts, iv, id) ==
    (IF iv # Null THEN ClearInterval(ts, iv) ELSE ts) \cup {id}

\* a pause() that clears nothing
PauseClearsNothing(ts, iv) == ts

\* the timers active after pause() (lines 201-205)
PauseTimers(ts, iv) == IF iv # Null THEN ClearInterval(ts, iv) ELSE ts

\* start() (lines 191-199)
Start ==
    /\ started < MaxStarts
    /\ timers' = StartTimers(timers, interval, started + 1)
    /\ interval' = started + 1
    /\ started' = started + 1

\* pause() (lines 201-205): this.interval keeps the id of the cleared timer
Pause ==
    /\ timers' = PauseTimers(timers, interval)
    /\ UNCHANGED <<interval, started>>

\* what drawAllBodies() paints (lines 214-217): every body of the collection
Paint(bs) == bs

\* a timer callback that draws first and steps afterwards
FrameBefore(before, after) == Paint(before)

\* the frame a timer callback paints (lines 195-198): drawAllBodies() runs
\* after calculateOneTick() has returned
Frame(before, after) == Paint(after)

\* main() (lines 284-307): the simulation, the central body, the first frame
InitMain ==
    /\ \E numberOfBodies \in 0..InitBodies :
           \E bs \in [1..numberOfBodies -> SpawnsDriver] :
               \E color \in BODY_COLORS :
                   bodies = Push(bs, Central(color))
    /\ time = 0
    /\ calls = 0
    /\ created = Len(bodies) - 1
    /\ last = NoOp("main", <<>>)
    /\ paused = TRUE
    /\ interval = Null
    /\ timers = {}
    /\ started = 0
    /\ drawn = Paint(bodies)

\* pauseSimulation (lines 265-275), called by the click on the pause button
\* and by the Space key (lines 294-305)
PauseSimulation ==
    /\ paused' = ~paused
    /\ IF paused THEN Start ELSE Pause
    /\ last' = NoOp("pauseSimulation", bodies)
    /\ UNCHANGED <<bodies, time, calls, created, drawn>>

\* a firing of an active interval timer: the callback of lines 195-198
TimerFires ==
    /\ timers # {}
    /\ Step
    /\ drawn' = Frame(bodies, bodies')
    /\ UNCHANGED <<paused, interval, timers, started>>

\* the click on the canvas (lines 160-170)
CanvasClick == PlaceFrom(SpawnsDriver, MaxBodies)

\* the resize listener: setCanvasSize (lines 277-282) redraws
Resize ==
    /\ drawn' = Paint(bodies)
    /\ last' = NoOp("setCanvasSize", bodies)
    /\ UNCHANGED <<bodies, time, calls, created,
                   paused, interval, timers, started>>

NextDriver == PauseSimulation \/ TimerFires \/ CanvasClick \/ Resize
SpecDriver == InitMain /\ [][NextDriver]_vars

\* start() and pause() called in any order on the simulation of main
StartCall ==
    /\ Start
    /\ last' = NoOp("start", bodies)
    /\ UNCHANGED <<bodies, time, calls, created, paused, drawn>>

PauseCall ==
    /\ Pause
    /\ last' = NoOp("pause", bodies)
    /\ UNCHANGED <<bodies, time, calls, created, paused, drawn>>

NextTimer == StartCall \/ PauseCall \/ TimerFires
SpecTimer == InitMain /\ [][NextTimer]_vars

\* ---------------------------------------------------------- properties
Ticked == last.op = "calculateOneTick"
Placed == last.op = "placeNewBody"

RECURSIVE TotalMass(_)
TotalMass(bs) == IF bs = <<>> THEN 0 ELSE Head(bs).mass + TotalMass(Tail(bs))

Indices(bs) == [k \in 1..Len(bs) |-> k]
Events == {last.absorbed[p] : p \in 1..Len(last.absorbed)}

\* the partners slot i absorbed in the last tick, in increasing index order
PartnersOf(i) ==
    SelectSeq(Indices(last.scanned), LAMBDA j : <<i, j>> \in Events)

RECURSIVE MassOf(_, _)
MassOf(bs, js) ==
    IF js = <<>> THEN 0 ELSE bs[Head(js)].mass + MassOf(bs, Tail(js))

\* C1: every call of calculateOneTick adds exactly 1 to the tick counter and
\* nothing else changes it: after N calls, interleaved with any insertions,
\* the counter is its initial value 0 plus N.
C1_TickMonotonic == time = calls

C1_Witness ==
    /\ calls = 2
    /\ time = 2
    /\ Ticked
    /\ Len(last.before) > 0
    /\ created > InitBodies

C3_MassPositive == \A i \in 1..Len(bodies) : bodies[i].mass > 0

\* C4: no body of the collection carries markedForRemoval at the start or at
\* the end of a tick; the bodies marked in the collision pass are exactly
\* the ones the same tick drops.
C4_FlagsClear ==
    /\ \A i \in 1..Len(bodies) : ~bodies[i].markedForRemoval
    /\ Ticked =>
           /\ \A i \in 1..Len(last.before) : ~last.before[i].markedForRemoval
           /\ Len(bodies) =
                  Cardinality({i \in 1..Len(last.scanned) :
                                   ~last.scanned[i].markedForRemoval})

C4_Witness ==
    /\ Ticked
    /\ \E i \in 1..Len(last.scanned) : last.scanned[i].markedForRemoval
    /\ bodies # <<>>

\* C5 (as claimed): the force pass never produces an undefined force that
\* move() then carries into a body's position.
C5_NoUndefinedForce ==
    \A i \in 1..Len(bodies) :
        ~bodies[i].force.nan /\ ~bodies[i].massCenter.nan

\* C6 (as claimed): an insertion whose mass is not greater than 0 adds no
\* body, so a body that an insertion added has a mass greater than 0.
C6_InvalidMassRejected ==
    (Placed /\ bodies # last.before) => bodies[Len(bodies)].mass > 0

\* C7: on an empty collection calculateOneTick completes (it has an outcome
\* whenever the run may still tick) and leaves the collection empty.
C7_EmptyStepSafe ==
    /\ (bodies = <<>> /\ calls < MaxTicks) => ENABLED CalculateOneTick
    /\ (Ticked /\ last.before = <<>>) =>
           bodies = <<>> /\ last.scanned = <<>> /\ last.absorbed = <<>>

C7_Witness ==
    /\ Ticked
    /\ last.before = <<>>
    /\ bodies = <<>>
    /\ calls = 2

\* C8: a slot marked as a partner absorbs nothing afterwards and is not
\* absorbed again, and the marked slots are exactly the absorbed partners:
\* every removed body is folded into exactly one absorber.
C8_ConsumedInert ==
    Ticked =>
        /\ \A p, q \in 1..Len(last.absorbed) :
               p < q =>
                   /\ last.absorbed[q][1] # last.absorbed[p][2]
                   /\ last.absorbed[q][2] # last.absorbed[p][2]
        /\ {j \in 1..Len(last.scanned) : last.scanned[j].markedForRemoval}
               = {e[2] : e \in Events}
        /\ \A e \in Events : e[1] # e[2]

\* slot j was consumed by an earlier slot i and, reached as outer index,
\* touches a body k that i did not absorb
C8_Witness ==
    /\ Ticked
    /\ \E e \in Events :
           /\ e[1] < e[2]
           /\ \E k \in 1..Len(last.before) :
                  /\ k \notin {e[1], e[2]}
                  /\ CollidesWith(last.before[e[2]], last.before[k])
                  /\ ~CollidesWith(last.before[e[1]], last.before[k])

\* mass, position and displacement of a body
Core(b) == <<b.mass, b.massCenter, b.movement>>

RECURSIVE FoldInOrder(_, _, _)
FoldInOrder(current, bs, js) ==
    IF js = <<>> THEN current
    ELSE FoldInOrder(Merge(current, bs[Head(js)], TRUE), bs, Tail(js))

\* the slots that survive the collision pass, in slot order
Survivors ==
    SelectSeq(Indices(last.scanned),
              LAMBDA k : ~last.scanned[k].markedForRemoval)

\* C9: the collision pass keeps the slots: an absorber marks its partners in
\* increasing index order, its slot then holds the body it held before the
\* tick merged with these partners in that order, and the bodies left after
\* the filter are the unmarked slots in slot order.
C9_SlotsAndOrder ==
    Ticked =>
        /\ Len(last.scanned) = Len(last.before)
        /\ \A p, q \in 1..Len(last.absorbed) :
               (p < q /\ last.absorbed[p][1] = last.absorbed[q][1])
                   => last.absorbed[p][2] < last.absorbed[q][2]
        /\ \A i \in 1..Len(last.before) :
               Core(last.scanned[i]) =
                   Core(FoldInOrder(last.before[i], last.scanned, PartnersOf(i)))
        /\ Len(bodies) = Len(Survivors)
        /\ \A k \in 1..Len(Survivors) :
               /\ bodies[k].mass = last.scanned[Survivors[k]].mass
               /\ bodies[k].color = last.scanned[Survivors[k]].color

\* an absorber with two partners
C9_Witness ==
    /\ Ticked
    /\ \E p, q \in 1..Len(last.absorbed) :
           p < q /\ last.absorbed[p][1] = last.absorbed[q][1]

RECURSIVE SumForces(_, _, _)
SumForces(bs, i, j) ==
    IF j = 0 THEN Vec(0, 0)
    ELSE IF j = i THEN SumForces(bs, i, j - 1)
    ELSE Plus(SumForces(bs, i, j - 1), GravitationalForce(bs[i], bs[j]))

\* C10: after a tick the force of every body is the sum, from zero, of the
\* forces between it and the other survivors of that tick's collision pass
\* at their positions before the move, and its position and displacement
\* are those positions advanced once by that force.
C10_PhaseOrder ==
    Ticked =>
        LET S == SelectSeq(last.scanned, LAMBDA b : ~b.markedForRemoval)
        IN  /\ Len(bodies) = Len(S)
            /\ \A i \in 1..Len(S) :
                   LET f == SumForces(S, i, Len(S))
                       a == TimesInverse(f, S[i].mass)
                   IN  /\ bodies[i].force = f
                       /\ bodies[i].massCenter =
                              Plus(S[i].movement, Plus(S[i].massCenter, a))
                       /\ bodies[i].movement = Plus(S[i].movement, a)

\* a second tick that removes a body, with forces left from the first tick
\* and new forces that are defined and not zero
C10_Witness ==
    /\ Ticked
    /\ calls = 2
    /\ last.absorbed # <<>>
    /\ Len(bodies) >= 2
    /\ \E i \in 1..Len(last.before) : last.before[i].force # Vec(0, 0)
    /\ \A k \in 1..Len(bodies) :
           ~bodies[k].force.nan /\ bodies[k].force # Vec(0, 0)

\* C11: an insertion appends exactly one body, with zero force and
\* markedForRemoval false, at the end of the collection, and leaves the
\* bodies before it, their order and the tick counter as they were.
C11_InsertionFrame ==
    Placed =>
        /\ Len(bodies) = Len(last.before) + 1
        /\ SubSeq(bodies, 1, Len(last.before)) = last.before
        /\ bodies[Len(bodies)].force = Vec(0, 0)
        /\ ~bodies[Len(bodies)].markedForRemoval
        /\ time = last.time

\* an insertion after a tick, behind a body that carries a force
C11_Witness ==
    /\ Placed
    /\ calls >= 1
    /\ \E i \in 1..Len(last.before) :
           /\ ~last.before[i].force.nan
           /\ last.before[i].force # Vec(0, 0)
    /\ bodies[Len(bodies)].massCenter # bodies[1].massCenter

\* C14: a step on a collection of one body whose displacement is zero
\* leaves the body's position and displacement as they were.
C14_IsolatedAtRest ==
    (/\ Ticked
     /\ Len(last.before) = 1
     /\ last.before[1].movement = Vec(0, 0))
    => /\ Len(bodies) = 1
       /\ bodies[1].massCenter = last.before[1].massCenter
       /\ bodies[1].movement = last.before[1].movement

\* the bodies the scans of the last collision pass began with, and the
\* bodies they were tested against: these and the merged ones in the slots
Unmarked(b) == [b EXCEPT !.markedForRemoval = FALSE]
Scanning == {Unmarked(last.before[i]) : i \in 1..Len(last.before)}
Tested ==
    Scanning \cup {Unmarked(last.scanned[i]) : i \in 1..Len(last.scanned)}

\* radius() where it is a number of the grid
HasGridRadius(b) == Sqrt(RadiusSq(b)) * Sqrt(RadiusSq(b)) = RadiusSq(b)

\* distance < radius + radius for two bodies with radii of the grid
CloserThanRadii(a, b) ==
    LET d == Minus(b.massCenter, a.massCenter)
        r == Sqrt(RadiusSq(a)) + Sqrt(RadiusSq(b))
    IN  ~d.nan /\ LengthSq(d) < r * r

\* C15: collidesWith is true exactly when the distance of the two centres
\* is strictly less than the sum of the two radii, and it is symmetric.
C15_CollisionThreshold ==
    LET OnGrid == {b \in Tested : HasGridRadius(b)}
    IN  \A a \in Scanning : \A b \in Tested :
            LET c == CollidesWith(a, b)
            IN  /\ c = CollidesWith(b, a)
                /\ (a \in OnGrid /\ b \in OnGrid)
                       => (c = CloserThanRadii(a, b))

\* a tick on two bodies whose distance is exactly the sum of their radii:
\* neither absorbs the other
C15_Witness ==
    /\ Ticked
    /\ last.absorbed = <<>>
    /\ \E i, j \in 1..Len(last.before) :
           LET a == last.before[i]
               b == last.before[j]
               r == Sqrt(RadiusSq(a)) + Sqrt(RadiusSq(b))
           IN  /\ i # j
               /\ HasGridRadius(a) /\ HasGridRadius(b)
               /\ RadiusSq(a) > 0 /\ RadiusSq(b) > 0
               /\ ~a.massCenter.nan /\ ~b.massCenter.nan
               /\ LengthSq(Minus(b.massCenter, a.massCenter)) = r * r

Neg(v) == IF v.nan THEN NaNVec ELSE Vec(-v.x, -v.y)

\* two bodies at defined, different positions
Apart(a, b) ==
    /\ ~a.massCenter.nan /\ ~b.massCenter.nan
    /\ a.massCenter # b.massCenter

RECURSIVE SumOfForces(_)
SumOfForces(bs) ==
    IF bs = <<>> THEN Vec(0, 0) ELSE Plus(Head(bs).force, SumOfForces(Tail(bs)))

\* the survivors of the last collision pass, as the force pass found them
BeforeForcePass == Filter(last.scanned)

\* the pairs of different slots of the sequence bs, each pair once
Pairs(bs) == {p \in (1..Len(bs)) \X (1..Len(bs)) : p[1] < p[2]}

\* C17 as stated: for bodies at different positions that a force pass works
\* on, A.gravitationalForce(B) is the exact negation of
\* B.gravitationalForce(A), so the forces of one force pass over bodies at
\* different positions sum to the zero vector.
C17_ForceAntisymmetry ==
    /\ \A p \in Pairs(BeforeForcePass) :
           LET a == BeforeForcePass[p[1]]
               b == BeforeForcePass[p[2]]
           IN  Apart(a, b)
                   => GravitationalForce(a, b) = Neg(GravitationalForce(b, a))
    /\ (/\ Ticked
        /\ \A i, j \in 1..Len(BeforeForcePass) :
               i # j => Apart(BeforeForcePass[i], BeforeForcePass[j]))
       => SumOfForces(bodies) = Vec(0, 0)

\* C17 amended: for bodies at different positions the two forces never
\* point the same way, and they are exact negations, and the forces of a
\* force pass over two such bodies sum to zero, whenever G * mA * mB and
\* G * mB * mA round to the same number (as for equal masses); otherwise
\* the two magnitudes may differ by rounding.
C17_ForceOpposite ==
    /\ \A p \in Pairs(last.scanned) :
           LET a == last.scanned[p[1]]
               b == last.scanned[p[2]]
               f == GravitationalForce(a, b)
               g == GravitationalForce(b, a)
           IN  (/\ ~a.markedForRemoval /\ ~b.markedForRemoval
                /\ Apart(a, b)) =>
                   /\ ~f.nan /\ ~g.nan
                   /\ f.x * g.x <= 0
                   /\ f.y * g.y <= 0
                   /\ (Attraction(a, b) = Attraction(b, a)) => f = Neg(g)
    /\ (/\ Ticked
        /\ Len(BeforeForcePass) = 2
        /\ Apart(BeforeForcePass[1], BeforeForcePass[2])
        /\ Attraction(BeforeForcePass[1], BeforeForcePass[2])
               = Attraction(BeforeForcePass[2], BeforeForcePass[1]))
       => SumOfForces(bodies) = Vec(0, 0)

\* a force pass over two bodies at different positions that pull at each
\* other with equal and opposite forces
C17_Witness ==
    /\ Ticked
    /\ Len(BeforeForcePass) = 2
    /\ Apart(BeforeForcePass[1], BeforeForcePass[2])
    /\ bodies[1].force # Vec(0, 0)
    /\ bodies[1].force = Neg(bodies[2].force)

\* C18 as stated: after the collision pass and the drop of the marked
\* bodies no two surviving bodies collide.
C18_NoCollidingSurvivors ==
    Ticked =>
        \A i, k \in 1..Len(BeforeForcePass) :
            i # k => ~CollidesWith(BeforeForcePass[i], BeforeForcePass[k])

\* C18 amended: after the collision pass two surviving bodies collide only
\* if the one in the later slot absorbed a partner in that pass; a merged
\* body is not tested against the slots before its own.
C18_UnmergedSurvivorsApart ==
    Ticked =>
        \A p, q \in 1..Len(Survivors) :
            (p < q /\ PartnersOf(Survivors[q]) = <<>>)
                => ~CollidesWith(last.scanned[Survivors[p]],
                                 last.scanned[Survivors[q]])

\* a pass with a merge that leaves a merged body and a body that absorbed
\* nothing in a later slot
C18_Witness ==
    /\ Ticked
    /\ \E p, q \in 1..Len(Survivors) :
           /\ p < q
           /\ PartnersOf(Survivors[p]) # <<>>
           /\ PartnersOf(Survivors[q]) = <<>>
           /\ ~last.scanned[Survivors[p]].massCenter.nan

\* C19: the scan of outer index i tests every partner against the body
\* slot i held when the scan began, also after partners were collected; the
\* merged body is stored when the scan has ended, and the scans of later
\* outer indexes meet the merged body in slot i.
C19_ScanUsesPreMerge ==
    Ticked =>
        /\ \A e \in Events :
               CollidesWith(last.before[e[1]], last.scanned[e[2]])
        /\ \A p, q \in 1..Len(Survivors) :
               p < q => ~CollidesWith(last.before[Survivors[p]],
                                      last.before[Survivors[q]])

\* a scan whose body, merged with a partner it found, overlaps a later slot
\* that the body it began with does not overlap: the later slot survives
C19_Witness ==
    /\ Ticked
    /\ \E e \in Events : \E k \in 1..Len(last.scanned) :
           /\ e[2] < k
           /\ ~last.scanned[k].markedForRemoval
           /\ ~CollidesWith(last.before[e[1]], last.before[k])
           /\ CollidesWith(Merge(last.before[e[1]], last.before[e[2]], TRUE),
                           last.before[k])

\* an absorption by a later outer index of a slot that holds a merged body
C19_WitnessLater ==
    /\ Ticked
    /\ \E e, f \in Events :
           /\ e[1] = f[2]
           /\ e[1] < f[1]

\* C12: every listener and timer callback runs to its end before the next
\* begins, so the painter never shows a body marked for removal or a
\* collection taken inside a step: the frame is the collection as a whole
\* step or an insertion left it, without the bodies inserted since; and an
\* insertion finds the collection as a whole step left it, with no marked
\* body in it.
C12_HandlersAtomic ==
    /\ \A i \in 1..Len(drawn) : ~drawn[i].markedForRemoval
    /\ Len(drawn) <= Len(bodies)
    /\ SubSeq(bodies, 1, Len(drawn)) = drawn
    /\ Ticked => drawn = bodies
    /\ Placed =>
           /\ \A i \in 1..Len(last.before) :
                  ~last.before[i].markedForRemoval
           /\ SubSeq(bodies, 1, Len(last.before)) = last.before

\* a timer firing whose step marked and merged bodies, after at least one
\* insertion, with the frame of the finished step on the canvas
C12_Witness ==
    /\ Ticked
    /\ last.absorbed # <<>>
    /\ \E i \in 1..Len(last.scanned) : last.scanned[i].markedForRemoval
    /\ created > InitBodies
    /\ drawn # <<>>

\* C13: after every sequence of toggles paused is true exactly when no
\* interval timer is active, and no step runs while paused: the last
\* operation is a step only when the simulation is running.  Insertions
\* are accepted while paused.
C13_PausedIffNoTimer ==
    /\ paused <=> timers = {}
    /\ Ticked => ~paused
    /\ (paused /\ last.op \in {"pauseSimulation", "placeNewBody"})
           => time = last.time

\* paused again after steps have run, and a body inserted while paused
C13_Witness ==
    /\ paused
    /\ Placed
    /\ calls >= 1
    /\ started >= 1
    /\ timers = {}

\* C20: after any sequence of start() and pause() at most one interval
\* timer is active, the one this.interval names, and every firing is one
\* step followed by one draw.
C20_SingleTimer ==
    /\ Cardinality(timers) <= 1
    /\ timers \subseteq {interval}
    /\ Ticked => (time = last.time + 1 /\ drawn = Paint(bodies))

\* a firing of the one active timer after start() was called several times
C20_Witness ==
    /\ started >= 2
    /\ Cardinality(timers) = 1
    /\ Ticked
    /\ last.before # bodies

====
